---- MODULE Spec2Model ----
(***************************************************************************)
(* Model of the youtu-rag documentation site's localized layout            *)
(* (docs/app/[lang]/layout.tsx, docs/app/layout.config.tsx) and of the     *)
(* chat request flow described in docs/API_PARAMETER_PASSING.md.           *)
(*                                                                         *)
(* Non-ASCII string literals of the source are written here as ASCII       *)
(* stand-ins that keep them pairwise distinct (the zh title, description   *)
(* and keywords, the locale name, the 'search' translation).               *)
(***************************************************************************)
EXTENDS Integers, Sequences, FiniteSets, TLC

VARIABLES
    params,        \* per generateMetadata call: the value its params promise resolves to
    pc,            \* per generateMetadata call: "idle", "await" (suspended at await params), "done"
    result,        \* per generateMetadata call: the metadata object returned
    languages,     \* i18n.languages, the configured list of supported languages
    assetPrefix,   \* the deployment's asset base path used by getAssetPath
    staticParams,  \* the last value returned by generateStaticParams
    provider,      \* the i18n prop Layout last passed to ClientRootProvider
    navOptions,    \* the last baseOptions call: its argument and its result
    request,       \* the chat request being handled by ChatMessageApi.post
    payload        \* the last request body sent to the ADP API

vars == <<params, pc, result, languages, assetPrefix, staticParams, provider,
          navOptions, request, payload>>

layoutVars == <<languages, assetPrefix, staticParams, provider, navOptions>>
metaVars == <<params, pc, result>>
chatVars == <<request, payload>>

----------------------------------------------------------------------------
(* Bounds *)

NumCalls == 2          \* concurrent generateMetadata calls
MaxLanguages == 2      \* length of i18n.languages
MaxVars == 2           \* entries in the CustomVariables a client sends

Calls == 1 .. NumCalls

----------------------------------------------------------------------------
(* JavaScript values.  Every value is a record of the same shape so that    *)
(* values of different JavaScript types can be compared.                    *)

Undefined == [t |-> "undefined", s |-> "", a |-> <<>>]
Str(x) == [t |-> "string", s |-> x, a |-> <<>>]
Arr(x) == [t |-> "array", s |-> "", a |-> x]
Fn(name) == [t |-> "function", s |-> name, a |-> <<>>]
Obj(name) == [t |-> "object", s |-> name, a |-> <<>>]

\* ToBoolean: undefined and the empty string are falsy, objects are truthy.
Truthy(v) ==
    CASE v.t = "undefined" -> FALSE
      [] v.t = "string" -> v.s # ""
      [] OTHER -> TRUE

\* a || b
OrElse(a, b) == IF Truthy(a) THEN a ELSE b

\* The properties every object literal inherits from Object.prototype.
ObjectPrototype ==
    [constructor |-> Fn("Object"),
     toString |-> Fn("Object.prototype.toString"),
     valueOf |-> Fn("Object.prototype.valueOf"),
     hasOwnProperty |-> Fn("Object.prototype.hasOwnProperty"),
     __proto__ |-> Obj("Object.prototype")]

\* obj[key] for an object literal obj: an own property, else a property
\* inherited from Object.prototype, else undefined.
Get(obj, key) ==
    IF key \in DOMAIN obj THEN obj[key]
    ELSE IF key \in DOMAIN ObjectPrototype THEN ObjectPrototype[key]
    ELSE Undefined

\* The lang strings a request can carry: the supported ones, unsupported
\* ones, the empty string, and names of Object.prototype properties.
LangStrings == {"en", "zh", "", "fr", "constructor", "toString", "__proto__"}

----------------------------------------------------------------------------
(* docs/app/[lang]/layout.tsx: generateMetadata *)

titles ==
    [en |-> Str("Youtu-RAG - An open-source multimodal RAG system for complex documents"),
     zh |-> Str("Youtu-RAG - zh: open-source multimodal RAG system for complex documents")]

descriptions ==
    [en |-> Str("Youtu-RAG is an open-source multimodal RAG system designed for complex document understanding. It provides advanced capabilities for parsing, chunking, embedding, and retrieving information from various document types including PDFs, images, Excel files, and databases."),
     zh |-> Str("Youtu-RAG zh: an open-source multimodal RAG system focused on complex document understanding; parsing, chunking, embedding and retrieval for PDF, images, Excel, databases.")]

keywordsMap ==
    [en |-> Arr(<<"Youtu-RAG", "RAG", "Multimodal", "Document Understanding", "AI",
                  "Open Source", "HiChunk", "Embedding">>),
     zh |-> Arr(<<"Youtu-RAG", "RAG", "zh:Multimodal", "zh:Document Understanding", "AI",
                  "zh:Open Source", "HiChunk", "zh:Embedding">>)]

ogLocales ==
    [en |-> Str("en_US"),
     zh |-> Str("zh_CN")]

\* generateMetadata with the operands of || exchanged: the default first.
generateMetadata_defaultFirst(lang) ==
    LET title == OrElse(titles.en, Get(titles, lang))
        description == OrElse(descriptions.en, Get(descriptions, lang))
        keywords == OrElse(keywordsMap.en, Get(keywordsMap, lang))
        locale == OrElse(ogLocales.en, Get(ogLocales, lang))
    IN  [title |-> title,
         description |-> description,
         keywords |-> keywords,
         icons |-> [icon |-> "/images/favicon.png", apple |-> "/images/favicon.png"],
         openGraph |->
            [title |-> title,
             description |-> description,
             images |-> <<[url |-> "/images/hello-adp.png", width |-> 1200,
                           height |-> 630, alt |-> "Youtu-RAG Logo"]>>,
             locale |-> locale,
             type |-> "website"],
         twitter |->
            [card |-> "summary_large_image",
             title |-> title,
             description |-> description,
             images |-> <<"/images/hello-adp.png">>]]

\* generateMetadata whose Open Graph and Twitter cards take the default
\* locale's title and description instead of the resolved ones.
generateMetadata_cardsDefault(lang) ==
    LET title == OrElse(Get(titles, lang), titles.en)
        description == OrElse(Get(descriptions, lang), descriptions.en)
        keywords == OrElse(Get(keywordsMap, lang), keywordsMap.en)
        locale == OrElse(Get(ogLocales, lang), ogLocales.en)
    IN  [title |-> title,
         description |-> description,
         keywords |-> keywords,
         icons |-> [icon |-> "/images/favicon.png", apple |-> "/images/favicon.png"],
         openGraph |->
            [title |-> titles.en,
             description |-> description,
             images |-> <<[url |-> "/images/hello-adp.png", width |-> 1200,
                           height |-> 630, alt |-> "Youtu-RAG Logo"]>>,
             locale |-> locale,
             type |-> "website"],
         twitter |->
            [card |-> "summary_large_image",
             title |-> title,
             description |-> descriptions.en,
             images |-> <<"/images/hello-adp.png">>]]

\* generateMetadata whose Open Graph image alt text and Twitter image are
\* chosen by the locale.
generateMetadata_localizedImage(lang) ==
    LET title == OrElse(Get(titles, lang), titles.en)
        description == OrElse(Get(descriptions, lang), descriptions.en)
        keywords == OrElse(Get(keywordsMap, lang), keywordsMap.en)
        locale == OrElse(Get(ogLocales, lang), ogLocales.en)
    IN  [title |-> title,
         description |-> description,
         keywords |-> keywords,
         icons |-> [icon |-> "/images/favicon.png", apple |-> "/images/favicon.png"],
         openGraph |->
            [title |-> title,
             description |-> description,
             images |-> <<[url |-> "/images/hello-adp.png", width |-> 1200,
                           height |-> 630,
                           alt |-> IF lang = "zh" THEN "Youtu-RAG zh:Logo"
                                   ELSE "Youtu-RAG Logo"]>>,
             locale |-> locale,
             type |-> "website"],
         twitter |->
            [card |-> "summary_large_image",
             title |-> title,
             description |-> description,
             images |-> IF lang = "zh" THEN <<"/images/hello-adp-zh.png">>
                        ELSE <<"/images/hello-adp.png">>]]

\* The object generateMetadata returns once params has resolved to lang.
generateMetadata(lang) ==
    LET title == OrElse(Get(titles, lang), titles.en)
        description == OrElse(Get(descriptions, lang), descriptions.en)
        keywords == OrElse(Get(keywordsMap, lang), keywordsMap.en)
        locale == OrElse(Get(ogLocales, lang), ogLocales.en)
    IN  [title |-> title,
         description |-> description,
         keywords |-> keywords,
         icons |-> [icon |-> "/images/favicon.png", apple |-> "/images/favicon.png"],
         openGraph |->
            [title |-> title,
             description |-> description,
             images |-> <<[url |-> "/images/hello-adp.png", width |-> 1200,
                           height |-> 630, alt |-> "Youtu-RAG Logo"]>>,
             locale |-> locale,
             type |-> "website"],
         twitter |->
            [card |-> "summary_large_image",
             title |-> title,
             description |-> description,
             images |-> <<"/images/hello-adp.png">>]]

NoParams == "<none>"
NoResult == [pending |-> TRUE]

\* await params reading a slot shared by the calls in flight: the params of
\* the first suspended call.
AwaitParams_shared(c) == params[CHOOSE d \in Calls : pc[d] = "await"]

\* The value `await params` yields in call c: the resolution of c's own promise.
AwaitParams(c) == params[c]

\* A caller invokes generateMetadata({params}); the function runs up to its
\* single await and suspends.
CallGenerateMetadata(c, lang) ==
    /\ pc[c] = "idle"
    /\ params' = [params EXCEPT ![c] = lang]
    /\ pc' = [pc EXCEPT ![c] = "await"]
    /\ result' = [result EXCEPT ![c] = NoResult]
    /\ UNCHANGED <<layoutVars, chatVars>>

\* The promise has resolved: the call resumes, builds its tables, resolves
\* the four locale-dependent fields and returns.
ResumeGenerateMetadata(c) ==
    /\ pc[c] = "await"
    /\ result' = [result EXCEPT ![c] = generateMetadata(AwaitParams(c))]
    /\ pc' = [pc EXCEPT ![c] = "done"]
    /\ UNCHANGED <<params, layoutVars, chatVars>>

\* The caller has consumed the metadata; the slot is free for another render.
ReleaseMetadata(c) ==
    /\ pc[c] = "done"
    /\ pc' = [pc EXCEPT ![c] = "idle"]
    /\ params' = [params EXCEPT ![c] = NoParams]
    /\ result' = [result EXCEPT ![c] = NoResult]
    /\ UNCHANGED <<layoutVars, chatVars>>


----------------------------------------------------------------------------
(* docs/app/[lang]/layout.tsx: generateStaticParams and Layout;             *)
(* docs/app/layout.config.tsx: baseOptions                                  *)

\* The language tags i18n.languages may hold.
LanguageTags == {"en", "zh", "fr"}

LanguageLists ==
    UNION {[1 .. n -> LanguageTags] : n \in 1 .. MaxLanguages}

\* The shared i18n configuration object imported from @/lib/i18n.
i18n == [languages |-> languages]

\* generateStaticParams mapping the module's fixed locale list instead of
\* i18n.languages.
generateStaticParams_fixedLocales ==
    <<[lang |-> "en"], [lang |-> "zh"]>>

\* i18n.languages.map((lang) => ({ lang }))
generateStaticParams ==
    [k \in 1 .. Len(i18n.languages) |-> [lang |-> i18n.languages[k]]]

\* const zh: Partial<Translations> = { search: ... }
zh == [t |-> "object", s |-> "Translations", a |-> <<"search", "zh:search">>]

\* The module-level list of available language configurations.
locales ==
    <<[name |-> "English", locale |-> "en"],
      [name |-> "zh:Chinese", locale |-> "zh"]>>

\* The i18n prop Layout passes to ClientRootProvider for a resolved lang.
Layout(lang) ==
    LET translations == Get([zh |-> zh], lang)
    IN  [locale |-> lang,
         locales |-> locales,
         translations |-> translations]

\* getAssetPath from @/lib/utils: the path under the deployment's base path.
getAssetPath(path) == assetPrefix \o path

\* baseOptions whose logo alt text depends on the locale.
baseOptions_localized(locale) ==
    [i18n |-> i18n,
     nav |-> [title |-> [src |-> getAssetPath("/assets/logo.svg"),
                         alt |-> IF locale = "zh" THEN "Youtu-RAG zh" ELSE "Youtu-RAG",
                         width |-> 100,
                         height |-> 50]]]

\* baseOptions(locale): the shared layout options.
baseOptions(locale) ==
    [i18n |-> i18n,
     nav |-> [title |-> [src |-> getAssetPath("/assets/logo.svg"),
                         alt |-> "Youtu-RAG",
                         width |-> 100,
                         height |-> 50]]]

NoProvider == [locale |-> "", locales |-> <<>>, translations |-> Undefined]
NoOptions ==
    [i18n |-> [languages |-> <<>>],
     nav |-> [title |-> [src |-> "", alt |-> "", width |-> 0, height |-> 0]]]

\* The build calls generateStaticParams.
CallGenerateStaticParams ==
    /\ staticParams' = [called |-> TRUE, value |-> generateStaticParams]
    /\ UNCHANGED <<languages, assetPrefix, provider, navOptions, metaVars, chatVars>>

\* The framework renders Layout with params resolved to lang.
RenderLayout(lang) ==
    /\ provider' = [rendered |-> TRUE, lang |-> lang, i18n |-> Layout(lang)]
    /\ UNCHANGED <<languages, assetPrefix, staticParams, navOptions, metaVars, chatVars>>

\* A page shell calls baseOptions(locale).
CallBaseOptions(locale) ==
    /\ navOptions' = [called |-> TRUE, locale |-> locale, value |-> baseOptions(locale)]
    /\ UNCHANGED <<languages, assetPrefix, staticParams, provider, metaVars, chatVars>>

----------------------------------------------------------------------------
(* docs/API_PARAMETER_PASSING.md: the chat request flow                     *)
(* frontend -> server/router/chat.py -> server/vendor/tcadp/tcadp.py        *)

(* Python / JSON values, all of one record shape.  A dict or list holds a   *)
(* sequence of entries [k, v] whose values are scalars.                     *)
PStr(x) == [t |-> "str", s |-> x, n |-> 0, b |-> FALSE, kv |-> <<>>]
PInt(x) == [t |-> "int", s |-> "", n |-> x, b |-> FALSE, kv |-> <<>>]
PBool(x) == [t |-> "bool", s |-> "", n |-> 0, b |-> x, kv |-> <<>>]
PNone == [t |-> "NoneType", s |-> "", n |-> 0, b |-> FALSE, kv |-> <<>>]
PDict(entries) == [t |-> "dict", s |-> "", n |-> 0, b |-> FALSE, kv |-> entries]
PList(entries) == [t |-> "list", s |-> "", n |-> 0, b |-> FALSE, kv |-> entries]

\* isinstance(value, str)
IsStr(value) == value.t = "str"

\* json.dumps of a scalar (the strings of the model need no escaping).
json_scalar(value) ==
    CASE value.t = "str" -> "\"" \o value.s \o "\""
      [] value.t = "int" -> ToString(value.n)
      [] value.t = "bool" -> (IF value.b THEN "true" ELSE "false")
      [] value.t = "NoneType" -> "null"

RECURSIVE json_entries(_, _)
\* The entries of a dict ("key": value) or list (value), joined by ", ".
json_entries(entries, keyed) ==
    IF entries = <<>> THEN ""
    ELSE LET e == Head(entries)
             one == IF keyed THEN "\"" \o e.k \o "\": " \o json_scalar(e.v)
                    ELSE json_scalar(e.v)
         IN  IF Len(entries) = 1 THEN one
             ELSE one \o ", " \o json_entries(Tail(entries), keyed)

\* json.dumps(value) with the default separators.
json_dumps(value) ==
    CASE value.t = "dict" -> "{" \o json_entries(value.kv, TRUE) \o "}"
      [] value.t = "list" -> "[" \o json_entries(value.kv, FALSE) \o "]"
      [] OTHER -> json_scalar(value)

\* str(value) for a number or boolean.
py_str(value) ==
    CASE value.t = "int" -> ToString(value.n)
      [] value.t = "bool" -> (IF value.b THEN "True" ELSE "False")
      [] OTHER -> value.s

\* normalize_custom_variables that serialises dicts and lists only and
\* keeps every other value as it is.
normalize_custom_variables_containersOnly(variables) ==
    [key \in DOMAIN variables |->
        LET value == variables[key]
        IN  IF value.t \in {"dict", "list"} THEN PStr(json_dumps(value))
            ELSE value]

\* normalize_custom_variables(variables)
normalize_custom_variables(variables) ==
    [key \in DOMAIN variables |->
        LET value == variables[key]
        IN  IF IsStr(value) THEN value
            ELSE IF value.t \in {"dict", "list"} THEN PStr(json_dumps(value))
            ELSE IF value = PNone THEN PStr("")
            ELSE PStr(py_str(value))]

\* validate_custom_variables that rejects dicts and lists only.
validate_custom_variables_containersOnly(variables) ==
    [raised |-> \E key \in DOMAIN variables : variables[key].t \in {"dict", "list"},
     variables |-> variables]

\* validate_custom_variables(variables): whether the call raises ValueError,
\* and the map as the call leaves it.
validate_custom_variables(variables) ==
    [raised |-> \E key \in DOMAIN variables : ~IsStr(variables[key]),
     variables |-> variables]

\* The logged-in accounts CoreAccount.get can return.
Accounts ==
    {[Id |-> 123, Name |-> PStr("zhangsan"), Email |-> PStr("user@example.com"),
      Avatar |-> PStr("a.png")],
     [Id |-> 7, Name |-> PStr("li"), Email |-> PStr("li@example.com"),
      Avatar |-> PNone]}

\* AddAccount that keeps an 'account' entry the client supplied
\* (setdefault instead of assignment).
AddAccount_keepClient(variables, account) ==
    LET dumped == json_dumps(PDict(<<[k |-> "id", v |-> PStr(ToString(account.Id))],
                                     [k |-> "name", v |-> account.Name],
                                     [k |-> "email", v |-> account.Email],
                                     [k |-> "avatar", v |-> account.Avatar]>>))
    IN  [key \in DOMAIN variables \cup {"account"} |->
            IF key \in DOMAIN variables THEN variables[key] ELSE PStr(dumped)]

\* args['CustomVariables']['account'] = json.dumps({id, name, email, avatar})
AddAccount(variables, account) ==
    LET dumped == json_dumps(PDict(<<[k |-> "id", v |-> PStr(ToString(account.Id))],
                                     [k |-> "name", v |-> account.Name],
                                     [k |-> "email", v |-> account.Email],
                                     [k |-> "avatar", v |-> account.Avatar]>>))
    IN  [key \in DOMAIN variables \cup {"account"} |->
            IF key = "account" THEN PStr(dumped) ELSE variables[key]]

\* parser.add_argument("CustomVariables", type=dict, default={}): the
\* CustomVariables of the body, or the default {} when the body has none.
ParseCustomVariables(body) ==
    IF body.hasCustomVariables THEN body.CustomVariables ELSE << >>

\* chat(): the custom_variables of the payload posted to the ADP API.
BuildPayload(custom_variables) ==
    [sent |-> TRUE, custom_variables |-> custom_variables]

\* The keys and values a client can put in CustomVariables.
VariableKeys == {"user_level", "page_size", "account"}

VariableValues ==
    {PStr("VIP"), PStr(""), PInt(10), PBool(TRUE), PNone,
     PDict(<<[k |-> "id", v |-> PStr("123")], [k |-> "vip", v |-> PBool(FALSE)]>>),
     PList(<<[k |-> "", v |-> PInt(1)], [k |-> "", v |-> PStr("a")]>>)}

\* The request bodies sendMessage can post: without CustomVariables, or
\* with a map of at most MaxVars entries.
RequestBodies ==
    {[hasCustomVariables |-> FALSE, CustomVariables |-> << >>]}
    \cup {[hasCustomVariables |-> TRUE, CustomVariables |-> m] :
            m \in UNION {[K -> VariableValues] :
                            K \in {S \in SUBSET VariableKeys : Cardinality(S) <= MaxVars}}}

NoRequest ==
    [stage |-> "none", handler |-> "", body |-> [hasCustomVariables |-> FALSE,
     CustomVariables |-> << >>], account |-> CHOOSE a \in Accounts : TRUE,
     args |-> << >>, raised |-> FALSE]
NoPayload == [sent |-> FALSE, custom_variables |-> << >>]

\* ChatMessageApi.post as documented: parse the body, add the server-side
\* 'account' entry.
Post(body, account) ==
    /\ request.stage = "none"
    /\ request' = [stage |-> "handled", handler |-> "current", body |-> body,
                   account |-> account,
                   args |-> AddAccount(ParseCustomVariables(body), account),
                   raised |-> FALSE]
    /\ payload' = NoPayload
    /\ UNCHANGED <<metaVars, layoutVars>>

\* ChatMessageApi.post with the proposed conversion: as Post, then
\* normalize_custom_variables on the result.
PostNormalized(body, account) ==
    /\ request.stage = "none"
    /\ request' = [stage |-> "handled", handler |-> "normalize", body |-> body,
                   account |-> account,
                   args |-> normalize_custom_variables(
                                AddAccount(ParseCustomVariables(body), account)),
                   raised |-> FALSE]
    /\ payload' = NoPayload
    /\ UNCHANGED <<metaVars, layoutVars>>

\* ChatMessageApi.post with the strict check: as Post, then
\* validate_custom_variables; its ValueError ends the handler before the
\* streaming response is set up.
PostStrict(body, account) ==
    LET checked == validate_custom_variables(
                       AddAccount(ParseCustomVariables(body), account))
    IN  /\ request.stage = "none"
        /\ request' = [stage |-> IF checked.raised THEN "rejected" ELSE "handled",
                       handler |-> "strict", body |-> body, account |-> account,
                       args |-> checked.variables, raised |-> checked.raised]
        /\ payload' = NoPayload
        /\ UNCHANGED <<metaVars, layoutVars>>

\* The maps validate_custom_variables can be called with, the empty map
\* included.
VariableMaps ==
    UNION {[K -> VariableValues] :
              K \in {S \in SUBSET VariableKeys : Cardinality(S) <= MaxVars}}

\* validate_custom_variables called on a map on its own, outside a request.
CallValidate(variables) ==
    LET checked == validate_custom_variables(variables)
    IN  /\ request.stage = "none"
        /\ request' = [stage |-> "checked", handler |-> "validate",
                       body |-> [hasCustomVariables |-> TRUE,
                                 CustomVariables |-> variables],
                       account |-> request.account,
                       args |-> checked.variables, raised |-> checked.raised]
        /\ payload' = NoPayload
        /\ UNCHANGED <<metaVars, layoutVars>>

\* streaming_fn: CoreChat.message hands args['CustomVariables'] to chat(),
\* which posts the payload to the ADP API.
StreamChat ==
    /\ request.stage = "handled"
    /\ payload' = BuildPayload(request.args)
    /\ request' = [request EXCEPT !.stage = "sent"]
    /\ UNCHANGED <<metaVars, layoutVars>>

\* The handler is over: the stream has been written to the response, or the
\* error has been returned; the server is ready for the next request.
CompleteRequest ==
    /\ request.stage \in {"sent", "rejected", "checked"}
    /\ request' = NoRequest
    /\ payload' = NoPayload
    /\ UNCHANGED <<metaVars, layoutVars>>

----------------------------------------------------------------------------
(* Specifications *)

AssetPrefixes == {"", "/youtu-rag"}

\* Concurrent generateMetadata calls; nothing else runs.
Init ==
    /\ params = [c \in Calls |-> NoParams]
    /\ pc = [c \in Calls |-> "idle"]
    /\ result = [c \in Calls |-> NoResult]
    /\ languages = <<"en", "zh">>
    /\ assetPrefix = ""
    /\ staticParams = [called |-> FALSE, value |-> <<>>]
    /\ provider = [rendered |-> FALSE, lang |-> "", i18n |-> NoProvider]
    /\ navOptions = [called |-> FALSE, locale |-> "", value |-> NoOptions]
    /\ request = NoRequest
    /\ payload = NoPayload

Next ==
    \/ \E c \in Calls, lang \in LangStrings : CallGenerateMetadata(c, lang)
    \/ \E c \in Calls : ResumeGenerateMetadata(c)
    \/ \E c \in Calls : ReleaseMetadata(c)

Spec == Init /\ [][Next]_vars

\* Static params, Layout renders and baseOptions calls, for any configured
\* language list and asset base path.
InitLayout ==
    /\ params = [c \in Calls |-> NoParams]
    /\ pc = [c \in Calls |-> "idle"]
    /\ result = [c \in Calls |-> NoResult]
    /\ languages \in LanguageLists
    /\ assetPrefix \in AssetPrefixes
    /\ staticParams = [called |-> FALSE, value |-> <<>>]
    /\ provider = [rendered |-> FALSE, lang |-> "", i18n |-> NoProvider]
    /\ navOptions = [called |-> FALSE, locale |-> "", value |-> NoOptions]
    /\ request = NoRequest
    /\ payload = NoPayload

NextLayout ==
    \/ CallGenerateStaticParams
    \/ \E lang \in LangStrings : RenderLayout(lang)
    \/ \E locale \in LangStrings : CallBaseOptions(locale)

SpecLayout == InitLayout /\ [][NextLayout]_vars

\* The chat request flow.
InitChat ==
    /\ params = [c \in Calls |-> NoParams]
    /\ pc = [c \in Calls |-> "idle"]
    /\ result = [c \in Calls |-> NoResult]
    /\ languages = <<"en", "zh">>
    /\ assetPrefix = ""
    /\ staticParams = [called |-> FALSE, value |-> <<>>]
    /\ provider = [rendered |-> FALSE, lang |-> "", i18n |-> NoProvider]
    /\ navOptions = [called |-> FALSE, locale |-> "", value |-> NoOptions]
    /\ request = NoRequest
    /\ payload = NoPayload

NextChat ==
    \/ \E body \in RequestBodies, account \in Accounts : Post(body, account)
    \/ \E body \in RequestBodies, account \in Accounts : PostNormalized(body, account)
    \/ \E body \in RequestBodies, account \in Accounts : PostStrict(body, account)
    \/ \E variables \in VariableMaps : CallValidate(variables)
    \/ StreamChat
    \/ CompleteRequest

SpecChat == InitChat /\ [][NextChat]_vars

----------------------------------------------------------------------------
(* Properties of generateMetadata (checked under Spec) *)

\* The keys of the supported-locale tables.
SupportedLocales == {"en", "zh"}

Done(c) == pc[c] = "done"

\* C1: for every lang that is not a key of the supported-locale tables,
\* generateMetadata returns the metadata of lang = 'en': the en title,
\* description and keywords and openGraph.locale 'en_US'.
C1_UnsupportedLangGetsEnMetadata ==
    \A c \in Calls :
        (Done(c) /\ params[c] \notin SupportedLocales) =>
            /\ result[c].title = titles.en
            /\ result[c].description = descriptions.en
            /\ result[c].keywords = keywordsMap.en
            /\ result[c].openGraph.locale = Str("en_US")

\* C2: for lang 'en' or 'zh', generateMetadata returns exactly that
\* locale's title, description, keywords and Open Graph locale ('en_US' for
\* en, 'zh_CN' for zh) and the configured image alt text, and no value of
\* the other locale.
C2_SupportedLangGetsOwnValues ==
    \A c \in Calls :
        (Done(c) /\ params[c] \in SupportedLocales) =>
            LET lang == params[c]
                r == result[c]
            IN  /\ r.title = titles[lang]
                /\ r.description = descriptions[lang]
                /\ r.keywords = keywordsMap[lang]
                /\ r.openGraph.locale = ogLocales[lang]
                /\ r.openGraph.locale = (IF lang = "en" THEN Str("en_US") ELSE Str("zh_CN"))
                /\ r.openGraph.images[1].alt = "Youtu-RAG Logo"
                /\ \A other \in SupportedLocales \ {lang} :
                      /\ r.title # titles[other]
                      /\ r.description # descriptions[other]
                      /\ r.keywords # keywordsMap[other]
                      /\ r.openGraph.locale # ogLocales[other]
                      /\ r.openGraph.title # titles[other]
                      /\ r.twitter.description # descriptions[other]

C2_Witness ==
    \E c \in Calls : Done(c) /\ params[c] = "zh" /\ result[c].title = titles.zh

\* C4: whatever the order in which concurrent generateMetadata calls are
\* resumed, every call returns the metadata of its own lang, and two calls
\* with the same lang return equal metadata.
C4_ConcurrentCallsIndependent ==
    /\ \A c \in Calls : Done(c) => result[c] = generateMetadata(params[c])
    /\ \A c, d \in Calls :
          (Done(c) /\ Done(d) /\ params[c] = params[d]) => result[c] = result[d]

C4_Witness ==
    \E c, d \in Calls :
        /\ Done(c) /\ params[c] = "zh"
        /\ pc[d] = "await" /\ params[d] = "en"

\* C8: for every lang, title, description, keywords and openGraph.locale
\* are either all lang's own table entries or all the 'en' entries.
C8_FieldsFromOneLocale ==
    \A c \in Calls :
        Done(c) =>
            LET lang == params[c]
                r == result[c]
            IN  \/ /\ lang \in SupportedLocales
                   /\ r.title = titles[lang]
                   /\ r.description = descriptions[lang]
                   /\ r.keywords = keywordsMap[lang]
                   /\ r.openGraph.locale = ogLocales[lang]
                \/ /\ r.title = titles.en
                   /\ r.description = descriptions.en
                   /\ r.keywords = keywordsMap.en
                   /\ r.openGraph.locale = ogLocales.en

\* C10: in the returned metadata, openGraph.title and twitter.title equal
\* the title, and openGraph.description and twitter.description equal the
\* description, for every lang.
C10_CardsFollowTitleAndDescription ==
    \A c \in Calls :
        Done(c) =>
            /\ result[c].openGraph.title = result[c].title
            /\ result[c].twitter.title = result[c].title
            /\ result[c].openGraph.description = result[c].description
            /\ result[c].twitter.description = result[c].description

C10_Witness ==
    \E c, d \in Calls :
        /\ Done(c) /\ params[c] = "zh" /\ result[c].twitter.title = titles.zh
        /\ Done(d) /\ params[d] = "fr" /\ result[d].openGraph.title = titles.en

\* C11: the locale-independent part of the metadata is the same for every
\* lang, supported or falling back: icons, the single Open Graph image
\* (url, 1200x630, alt 'Youtu-RAG Logo'), openGraph.type, twitter.card and
\* twitter.images.
C11_LocaleIndependentPartFixed ==
    \A c \in Calls :
        Done(c) =>
            /\ result[c].icons = [icon |-> "/images/favicon.png",
                                  apple |-> "/images/favicon.png"]
            /\ result[c].openGraph.images =
                  <<[url |-> "/images/hello-adp.png", width |-> 1200,
                     height |-> 630, alt |-> "Youtu-RAG Logo"]>>
            /\ result[c].openGraph.type = "website"
            /\ result[c].twitter.card = "summary_large_image"
            /\ result[c].twitter.images = <<"/images/hello-adp.png">>

C11_Witness ==
    \E c, d \in Calls :
        /\ Done(c) /\ params[c] = "zh" /\ result[c].openGraph.locale = Str("zh_CN")
        /\ Done(d) /\ params[d] = "" /\ result[d].openGraph.locale = Str("en_US")
        /\ result[c].openGraph.images = result[d].openGraph.images

----------------------------------------------------------------------------
(* Properties of generateStaticParams, Layout and baseOptions (SpecLayout) *)

\* C3: generateStaticParams returns exactly one entry {lang: l} for each
\* element l of i18n.languages, in the same order.
C3_StaticParamsEnumerateLanguages ==
    staticParams.called =>
        /\ Len(staticParams.value) = Len(languages)
        /\ \A k \in 1 .. Len(languages) :
              staticParams.value[k] = [lang |-> languages[k]]

C3_Witness ==
    /\ staticParams.called
    /\ Len(languages) >= 2
    /\ languages[1] = "zh"
    /\ languages[2] = "fr"
    /\ Len(staticParams.value) = Len(languages)

\* C5: baseOptions returns the same configuration for every locale
\* argument: the shared i18n object and the logo image (alt 'Youtu-RAG',
\* width 100, height 50) as nav title.
C5_BaseOptionsIgnoreLocale ==
    navOptions.called =>
        /\ navOptions.value.i18n = [languages |-> languages]
        /\ navOptions.value.nav.title =
              [src |-> assetPrefix \o "/assets/logo.svg", alt |-> "Youtu-RAG",
               width |-> 100, height |-> 50]

C5_Witness ==
    /\ navOptions.called
    /\ navOptions.locale = "zh"
    /\ navOptions.value.nav.title.alt = "Youtu-RAG"

\* C9: for every lang, the provider receives locale = lang, the fixed locale
\* list, and translations equal to the Chinese table exactly when
\* lang = 'zh' and undefined for every other lang.
C9_ProviderGetsLangAndZhOnly ==
    provider.rendered =>
        /\ provider.i18n.locale = provider.lang
        /\ provider.i18n.locales =
              <<[name |-> "English", locale |-> "en"],
                [name |-> "zh:Chinese", locale |-> "zh"]>>
        /\ (provider.lang = "zh" => provider.i18n.translations = zh)
        /\ (provider.lang # "zh" => provider.i18n.translations = Undefined)

----------------------------------------------------------------------------
(* Properties of the chat request flow (SpecChat) *)

\* The CustomVariables the client sent, the empty map when it sent none.
ClientVariables ==
    IF request.body.hasCustomVariables THEN request.body.CustomVariables ELSE << >>

\* What normalize_custom_variables is documented to make of each value.
C6_Expected(value) ==
    CASE value = PStr("VIP") -> PStr("VIP")
      [] value = PStr("") -> PStr("")
      [] value = PInt(10) -> PStr("10")
      [] value = PBool(TRUE) -> PStr("True")
      [] value = PNone -> PStr("")
      [] value.t = "dict" -> PStr("{\"id\": \"123\", \"vip\": false}")
      [] value.t = "list" -> PStr("[1, \"a\"]")

\* C6: normalize_custom_variables keeps the key set and turns every value
\* into a string (a string as is, a dict or list as its JSON text, None as
\* the empty string, a number or boolean as its string form), so every
\* value of the custom_variables sent to the ADP API is a string.
C6_NormalizedValuesAreStrings ==
    request.handler = "normalize" =>
        /\ DOMAIN request.args = DOMAIN ClientVariables \cup {"account"}
        /\ \A key \in DOMAIN request.args : IsStr(request.args[key])
        /\ \A key \in DOMAIN ClientVariables \ {"account"} :
              request.args[key] = C6_Expected(ClientVariables[key])
        /\ payload.sent =>
              /\ DOMAIN payload.custom_variables = DOMAIN request.args
              /\ \A key \in DOMAIN payload.custom_variables :
                    IsStr(payload.custom_variables[key])

C6_Witness ==
    /\ request.handler = "normalize"
    /\ payload.sent
    /\ \E j, k \in DOMAIN ClientVariables :
          /\ ClientVariables[j].t = "dict"
          /\ ClientVariables[k] = PNone
          /\ payload.custom_variables[k] = PStr("")

\* The JSON string the server builds from the logged-in account.
C7_AccountJson(account) ==
    IF account.Id = 123
    THEN "{\"id\": \"123\", \"name\": \"zhangsan\", \"email\": \"user@example.com\", \"avatar\": \"a.png\"}"
    ELSE "{\"id\": \"7\", \"name\": \"li\", \"email\": \"li@example.com\", \"avatar\": null}"

\* C7: in the documented flow the client's CustomVariables reach the ADP
\* payload unchanged except for 'account', which is always the server-built
\* JSON string of the logged-in account; with no CustomVariables from the
\* client the payload holds only 'account'.
C7_ForwardedExceptAccount ==
    (request.handler = "current" /\ payload.sent) =>
        /\ DOMAIN payload.custom_variables = DOMAIN ClientVariables \cup {"account"}
        /\ payload.custom_variables["account"] = PStr(C7_AccountJson(request.account))
        /\ \A key \in DOMAIN ClientVariables \ {"account"} :
              payload.custom_variables[key] = ClientVariables[key]
        /\ ~request.body.hasCustomVariables =>
              DOMAIN payload.custom_variables = {"account"}

C7_Witness ==
    /\ request.handler = "current"
    /\ payload.sent
    /\ "account" \in DOMAIN ClientVariables
    /\ ClientVariables["account"] = PStr("VIP")
    /\ \E k \in DOMAIN ClientVariables : ClientVariables[k] = PInt(10)
    /\ payload.custom_variables["account"] # PStr("VIP")

\* C12: validate_custom_variables raises exactly when some value of the map
\* is not a string (so it accepts the empty map and any all-string map) and
\* leaves the map as it was; when it raises in the strict handler the
\* request is not forwarded to the ADP API.
C12_StrictValidation ==
    /\ request.handler = "validate" =>
          /\ request.raised <=>
                \E key \in DOMAIN ClientVariables : ClientVariables[key].t # "str"
          /\ DOMAIN ClientVariables = {} => ~request.raised
          /\ DOMAIN request.args = DOMAIN ClientVariables
          /\ \A key \in DOMAIN ClientVariables : request.args[key] = ClientVariables[key]
    /\ request.handler = "strict" =>
          /\ request.raised <=>
                \E key \in DOMAIN ClientVariables \ {"account"} :
                    ClientVariables[key].t # "str"
          /\ DOMAIN request.args = DOMAIN ClientVariables \cup {"account"}
          /\ request.args["account"] = PStr(C7_AccountJson(request.account))
          /\ \A key \in DOMAIN ClientVariables \ {"account"} :
                request.args[key] = ClientVariables[key]
          /\ request.raised => (request.stage = "rejected" /\ ~payload.sent)
          /\ ~request.raised => request.stage \in {"handled", "sent"}
          /\ payload.sent => payload.custom_variables = request.args

C12_Witness ==
    /\ request.handler = "strict"
    /\ request.raised
    /\ request.stage = "rejected"
    /\ ~payload.sent
    /\ \E j, k \in DOMAIN ClientVariables :
          /\ ClientVariables[j] = PStr("VIP")
          /\ ClientVariables[k] = PInt(10)

====
